---- MODULE Spec2Model ----
(***************************************************************************)
(* A model of github-webhook-notification: the webhook handler route_post, *)
(* the delivery worker process_send_message, the shutdown sequence of      *)
(* async_main (src/src/main.rs) and the configuration conversion and       *)
(* lookup of src/src/configure.rs.                                         *)
(*                                                                         *)
(* Conventions.  Option<T> is a sequence of length 0 (None) or 1 (Some).   *)
(* A string the code scans character by character (a ref, a commit hash,   *)
(* a header value) is a sequence of one-character strings; a string the    *)
(* code only compares or tests for emptiness (a secret, a repository full  *)
(* name, a reason) is a TLA+ string.                                       *)
(***************************************************************************)
EXTENDS Integers, Sequences, FiniteSets, TLC

VARIABLES
    toml,      \* the TomlConfig read at start-up (configure.rs:26-30)
    config,    \* the Config built from it (configure.rs:253-257)
    lookup,    \* the last call of Config::fetch_repository_configure and its result
    conn,      \* per connection: where its route_post call stands, bytes buffered
    lock,      \* holder of the Mutex around ExtraData (0: free)
    pending,   \* the request suspended in bot_tx.send(..).await, if any
    queue,     \* the mpsc channel's buffered commands, oldest first
    worker,    \* process_send_message: position, command in hand, destinations left
    calls,     \* outbound send_message calls made for the command in hand
    main,      \* async_main: position in the shutdown sequence
    out        \* the response route_post returned in the step just taken, if any

vars == <<toml, config, lookup, conn, lock, pending, queue, worker, calls, main, out>>

None == <<>>
Some(x) == <<x>>
Unwrap(o) == o[1]

(***************************************************************************)
(* Character strings                                                       *)
(***************************************************************************)
RefMain == <<"r","e","f","s","/","h","e","a","d","s","/","m","a","i","n">>
RefDev == <<"r","e","f","s","/","h","e","a","d","s","/","d","e","v">>
RefBare == <<"m","a","i","n">>
BranchMain == <<"m","a","i","n">>
BranchDev == <<"d","e","v">>

DigitValue ==
    ("0" :> 0) @@ ("1" :> 1) @@ ("2" :> 2) @@ ("3" :> 3) @@ ("4" :> 4) @@
    ("5" :> 5) @@ ("6" :> 6) @@ ("7" :> 7) @@ ("8" :> 8) @@ ("9" :> 9)

\* i64::from_str on a string of decimal digits.
RECURSIVE i64_from_str(_)
i64_from_str(s) ==
    IF Len(s) = 1 THEN DigitValue[s[1]]
    ELSE 10 * i64_from_str(SubSeq(s, 1, Len(s) - 1)) + DigitValue[s[Len(s)]]

(***************************************************************************)
(* Configuration (configure.rs)                                            *)
(***************************************************************************)
\* toml::Value, the variants parse_value accepts.
IntegerValue(i) == [t |-> "Integer", i |-> i, s |-> <<>>, v |-> <<>>]
StringValue(s) == [t |-> "String", i |-> 0, s |-> s, v |-> <<>>]
ArrayValue(v) == [t |-> "Array", i |-> 0, s |-> <<>>, v |-> v]

parse_value_item(x) ==
    IF x.t = "String" THEN i64_from_str(x.s) ELSE x.i

parse_value(value) ==
    CASE value.t = "String" -> <<i64_from_str(value.s)>>
      [] value.t = "Integer" -> <<value.i>>
      [] value.t = "Array" -> [k \in 1..Len(value.v) |-> parse_value_item(value.v[k])]

\* impl From<&TomlRepository> for Repository
RepositoryFrom(repo) ==
    [send_to |-> IF repo.send_to = None THEN <<>> ELSE parse_value(Unwrap(repo.send_to)),
     branch_ignore |-> IF repo.branch_ignore = None THEN <<>> ELSE Unwrap(repo.branch_ignore),
     secrets |-> IF repo.secrets = None THEN "" ELSE Unwrap(repo.secrets)]

EmptyMap == [x \in {} |-> x]

RECURSIVE convert_hashmap_insert(_, _)
convert_hashmap_insert(repositories, m) ==
    IF repositories = <<>> THEN m
    ELSE convert_hashmap_insert(
            Tail(repositories),
            [n \in DOMAIN m \cup {Head(repositories).full_name} |->
                IF n = Head(repositories).full_name
                THEN RepositoryFrom(Head(repositories))
                ELSE m[n]])

\* TomlConfig::convert_hashmap
convert_hashmap(t) ==
    IF t.repository = None THEN EmptyMap
    ELSE convert_hashmap_insert(Unwrap(t.repository), EmptyMap)

\* impl From<&TomlServer> for Server
ServerFrom(s) ==
    [secrets |-> IF s.secrets = None THEN "" ELSE Unwrap(s.secrets),
     token |-> IF s.token = None THEN "" ELSE Unwrap(s.token)]

\* impl From<&TomlTelegram> for Telegram
TelegramFrom(t) ==
    [bot_token |-> t.bot_token, send_to |-> parse_value(t.send_to)]

\* impl From<&TomlConfig> for Config
ConfigFrom(t) ==
    [server |-> ServerFrom(t.server),
     telegram |-> TelegramFrom(t.telegram),
     repo_mapping |-> convert_hashmap(t)]

\* RepositoryBuilder::new().set_send_to(..).set_secrets(..).build()
RepositoryBuilder(send_to, secrets) ==
    [send_to |-> send_to, branch_ignore |-> <<>>, secrets |-> secrets]

\* fetch_repository_configure without the set_secrets call.
fetch_repository_configure_without_secrets(cfg, name) ==
    IF name \notin DOMAIN cfg.repo_mapping
    THEN RepositoryBuilder(cfg.telegram.send_to, "")
    ELSE cfg.repo_mapping[name]

\* Config::fetch_repository_configure
fetch_repository_configure(cfg, name) ==
    IF name \notin DOMAIN cfg.repo_mapping
    THEN RepositoryBuilder(cfg.telegram.send_to, cfg.server.secrets)
    ELSE cfg.repo_mapping[name]

(***************************************************************************)
(* Configurations the model starts from                                    *)
(***************************************************************************)
FullNames == {"org/repo", "other/repo"}

TomlRepositoryOf(send_to, branch_ignore, secrets) ==
    [full_name |-> "org/repo", send_to |-> send_to,
     branch_ignore |-> branch_ignore, secrets |-> secrets]

TwoChats == ArrayValue(<<IntegerValue(111), StringValue(<<"2","2","2">>)>>)

\* Every shape of the optional fields of a [[repository]] table.
TomlRepositoriesAll ==
    {TomlRepositoryOf(s, b, k) :
        s \in {None, Some(ArrayValue(<<>>)), Some(IntegerValue(111)), Some(TwoChats)},
        b \in {None, Some(<<BranchDev>>)},
        k \in {None, Some(""), Some("r3p0")}}

TomlRepositoriesServe ==
    {TomlRepositoryOf(s, b, k) :
        s \in {None, Some(TwoChats)},
        b \in {None, Some(<<BranchDev>>)},
        k \in {None, Some("r3p0")}}

TomlConfigsOf(repositories, serverSecrets, chats) ==
    {[server |-> [secrets |-> k, token |-> None],
      telegram |-> [bot_token |-> b, send_to |-> c],
      repository |-> r] :
        k \in serverSecrets,
        b \in {"", "tok"},
        c \in chats,
        r \in {None} \cup {Some(<<x>>) : x \in repositories}}

TomlConfigsAll ==
    TomlConfigsOf(TomlRepositoriesAll, {None, Some(""), Some("s3cr3t")},
                  {IntegerValue(999), ArrayValue(<<>>)})

TomlConfigsServe ==
    TomlConfigsOf(TomlRepositoriesServe, {None, Some("s3cr3t")}, {IntegerValue(999)})

(***************************************************************************)
(* Requests: bodies and headers                                            *)
(***************************************************************************)
CommitLong ==
    [id |-> <<"0","1","2","3","4","5","6","7","8","9">>, message |-> "fix", url |-> "u"]
CommitShort == [id |-> <<"0","1","2">>, message |-> "fix", url |-> "u"]

Hashes == {<<>>, <<"0","0">>, <<"0","a">>}
Refs == {RefMain, RefDev, RefBare}
CommitLists == {<<CommitLong>>, <<CommitShort>>}

\* A raw body: not JSON at all, or a JSON object with some of the fields
\* the two event shapes need.
BodyGarbage == [json |-> FALSE, zen |-> None, push |-> None, repository |-> None]
BodyPing ==
    [json |-> TRUE, zen |-> Some("Half measures are as bad as nothing at all."),
     push |-> None, repository |-> Some("org/repo")]
BodyPush(name, ref, before, after, commits) ==
    [json |-> TRUE, zen |-> None,
     push |-> Some([remote_ref |-> ref, before |-> before, after |-> after,
                    commits |-> commits]),
     repository |-> Some(name)]

PushBodies ==
    {BodyPush(n, r, b, a, c) :
        n \in FullNames, r \in Refs, b \in Hashes, a \in Hashes, c \in CommitLists}

Bodies == {BodyGarbage, BodyPing} \cup PushBodies

EventHeaders == {None, Some("ping"), Some("push"), Some("issues")}

\* serde_json::from_slice::<GitHubPingEvent>: Some(event), or None for Err.
ParsePing(body) ==
    IF body.json /\ body.zen # None THEN Some([zen |-> Unwrap(body.zen)]) ELSE None

\* serde_json::from_slice::<GitHubPushEvent>
ParsePush(body) ==
    IF body.json /\ body.push # None /\ body.repository # None
    THEN Some([remote_ref |-> Unwrap(body.push).remote_ref,
               after |-> Unwrap(body.push).after,
               before |-> Unwrap(body.push).before,
               commits |-> Unwrap(body.push).commits,
               repository |-> [full_name |-> Unwrap(body.repository)]])
    ELSE None

(***************************************************************************)
(* Signature                                                               *)
(***************************************************************************)
IndexOf(seq, x) == CHOOSE i \in 1..Len(seq) : seq[i] = x

KeySeq == <<"", "s3cr3t", "r3p0">>
NameSeq == <<"org/repo", "other/repo">>
RefSeq == <<RefMain, RefDev, RefBare>>
HashSeq == <<<<>>, <<"0","0">>, <<"0","a">>>>
CommitsSeq == <<<<CommitLong>>, <<CommitShort>>>>

\* The bytes of a body, one per field (0: the field is absent).
BodyBytes(body) ==
    <<IF body.json THEN 1 ELSE 0,
      IF body.zen = None THEN 0 ELSE 1,
      IF body.repository = None THEN 0 ELSE IndexOf(NameSeq, Unwrap(body.repository))>>
    \o (IF body.push = None THEN <<0, 0, 0, 0>>
        ELSE <<IndexOf(RefSeq, Unwrap(body.push).remote_ref),
               IndexOf(HashSeq, Unwrap(body.push).before),
               IndexOf(HashSeq, Unwrap(body.push).after),
               IndexOf(CommitsSeq, Unwrap(body.push).commits)>>)

\* HMAC-SHA256 of the body under the key, as a sequence of bytes.  The
\* digest is idealised as collision free on the keys and bodies of the
\* model: its first byte names the key, the others are the body's bytes.
HmacSha256(key, body) == <<159 + IndexOf(KeySeq, key)>> \o BodyBytes(body)

HexLower == <<"0","1","2","3","4","5","6","7","8","9","a","b","c","d","e","f">>
HexUpper == <<"0","1","2","3","4","5","6","7","8","9","A","B","C","D","E","F">>

RECURSIVE HexOf(_, _)
HexOf(bytes, digits) ==
    IF bytes = <<>> THEN <<>>
    ELSE <<digits[(Head(bytes) \div 16) + 1], digits[(Head(bytes) % 16) + 1]>>
         \o HexOf(Tail(bytes), digits)

Sha256Prefix == <<"s","h","a","2","5","6","=">>

\* format!("sha256={:x}", bytes)
FormatSha256(bytes) == Sha256Prefix \o HexOf(bytes, HexLower)

ToLowerChar(c) ==
    CASE c = "A" -> "a" [] c = "B" -> "b" [] c = "C" -> "c"
      [] c = "D" -> "d" [] c = "E" -> "e" [] c = "F" -> "f"
      [] OTHER -> c

\* str::to_lowercase
to_lowercase(s) == [i \in 1..Len(s) |-> ToLowerChar(s[i])]

\* The X-Hub-Signature-256 values a sender may attach to a body: none, the
\* digest under either secret of the model in lower or upper case hex, and
\* the digest of another body.
SignatureHeaders(body) ==
    {None}
    \cup {Some(FormatSha256(HmacSha256(k, body))) : k \in {"s3cr3t", "r3p0"}}
    \cup {Some(Sha256Prefix \o HexOf(HmacSha256(k, body), HexUpper)) : k \in {"s3cr3t", "r3p0"}}
    \cup {Some(FormatSha256(HmacSha256("s3cr3t", BodyGarbage)))}

SignatureHeadersOf == [body \in Bodies |-> SignatureHeaders(body)]

(***************************************************************************)
(* route_post: verification and dispatch (main.rs:144-196)                 *)
(***************************************************************************)
\* HttpResponse::<Status>().json(Response::reason(status, reason)); the
\* reason is the sequence of pieces it is formatted from ("" is <<>>).
JsonResponse(status, reason) == [status |-> status, body |-> "json", reason |-> reason]
\* HttpResponse::<Status>().finish(): no body.
FinishResponse(status) == [status |-> status, body |-> "empty", reason |-> <<>>]
\* The response actix-web renders for the serde_json::Error that `?` returns:
\* status 500 with the error's text as a plain body.
ParseErrorResponse == [status |-> 500, body |-> "text", reason |-> <<"serde_json::Error">>]
\* The handler panicked (unwrap of a failed send): no response is written.
NoResponse == [status |-> 0, body |-> "none", reason |-> <<>>]

Terminate == [kind |-> "Terminate", event |-> None]
Data(event) == [kind |-> "Data", event |-> Some(event)]

\* check_0 looking at the first character only.
check_0_first_only(s) == s = <<>> \/ Head(s) = "0"

RECURSIVE check_0(_)
check_0(s) == IF s = <<>> THEN TRUE ELSE Head(s) = "0" /\ check_0(Tail(s))

\* signature_check lower-casing the header value as well as the computed one.
signature_check_ignoring_case(cfg, signature, body) ==
    LET secrets == cfg.server.secrets
        sha256val == to_lowercase(FormatSha256(HmacSha256(secrets, body)))
    IN  IF secrets # ""
        THEN IF signature # None
             THEN IF sha256val # to_lowercase(Unwrap(signature))
                  THEN Some(JsonResponse(403, <<"Checksum error">>))
                  ELSE None
             ELSE Some(JsonResponse(403, <<"Checksum header not found">>))
        ELSE None

\* signature_check without the test for an empty secret.
signature_check_empty_secret_too(cfg, signature, body) ==
    LET secrets == cfg.server.secrets
        sha256val == to_lowercase(FormatSha256(HmacSha256(secrets, body)))
    IN  IF signature # None
        THEN IF sha256val # Unwrap(signature)
             THEN Some(JsonResponse(403, <<"Checksum error">>))
             ELSE None
        ELSE Some(JsonResponse(403, <<"Checksum header not found">>))

\* main.rs:145-161.  None: the request may proceed; Some(r): it is answered r.
signature_check(cfg, signature, body) ==
    LET secrets == cfg.server.secrets
        sha256val == to_lowercase(FormatSha256(HmacSha256(secrets, body)))
    IN  IF secrets # ""
        THEN IF signature # None
             THEN IF sha256val # Unwrap(signature)
                  THEN Some(JsonResponse(403, <<"Checksum error">>))
                  ELSE None
             ELSE Some(JsonResponse(403, <<"Checksum header not found">>))
        ELSE None

\* dispatch answering a ping with Response::new_ok().
dispatch_ping_new_ok(event, body) ==
    IF event = None
    THEN [response |-> FinishResponse(500), cmds |-> <<>>]
    ELSE CASE Unwrap(event) = "ping" ->
                IF ParsePing(body) = None
                THEN [response |-> ParseErrorResponse, cmds |-> <<>>]
                ELSE [response |-> JsonResponse(200, <<>>), cmds |-> <<>>]
           [] Unwrap(event) = "push" ->
                IF ParsePush(body) = None
                THEN [response |-> ParseErrorResponse, cmds |-> <<>>]
                ELSE LET request_body == Unwrap(ParsePush(body))
                     IN  IF check_0(request_body.after) \/ check_0(request_body.before)
                         THEN [response |-> FinishResponse(204), cmds |-> <<>>]
                         ELSE [response |-> JsonResponse(200, <<>>),
                               cmds |-> <<Data(request_body)>>]
           [] OTHER ->
                [response |-> JsonResponse(400, <<"Unsupported event type ", Unwrap(event)>>),
                 cmds |-> <<>>]

\* dispatch treating every kind that is not "ping" as a push.
dispatch_push_by_default(event, body) ==
    IF event = None
    THEN [response |-> FinishResponse(500), cmds |-> <<>>]
    ELSE IF Unwrap(event) = "ping"
    THEN IF ParsePing(body) = None
         THEN [response |-> ParseErrorResponse, cmds |-> <<>>]
         ELSE [response |-> JsonResponse(200, <<Unwrap(ParsePing(body)).zen>>),
               cmds |-> <<>>]
    ELSE IF ParsePush(body) = None
         THEN [response |-> ParseErrorResponse, cmds |-> <<>>]
         ELSE LET request_body == Unwrap(ParsePush(body))
              IN  IF check_0(request_body.after) \/ check_0(request_body.before)
                  THEN [response |-> FinishResponse(204), cmds |-> <<>>]
                  ELSE [response |-> JsonResponse(200, <<>>),
                        cmds |-> <<Data(request_body)>>]

\* dispatch answering a body that does not parse with 400.
dispatch_parse_error_400(event, body) ==
    IF event = None
    THEN [response |-> FinishResponse(500), cmds |-> <<>>]
    ELSE CASE Unwrap(event) = "ping" ->
                IF ParsePing(body) = None
                THEN [response |-> JsonResponse(400, <<"serde_json::Error">>), cmds |-> <<>>]
                ELSE [response |-> JsonResponse(200, <<Unwrap(ParsePing(body)).zen>>),
                      cmds |-> <<>>]
           [] Unwrap(event) = "push" ->
                IF ParsePush(body) = None
                THEN [response |-> JsonResponse(400, <<"serde_json::Error">>), cmds |-> <<>>]
                ELSE LET request_body == Unwrap(ParsePush(body))
                     IN  IF check_0(request_body.after) \/ check_0(request_body.before)
                         THEN [response |-> FinishResponse(204), cmds |-> <<>>]
                         ELSE [response |-> JsonResponse(200, <<>>),
                               cmds |-> <<Data(request_body)>>]
           [] OTHER ->
                [response |-> JsonResponse(400, <<"Unsupported event type ", Unwrap(event)>>),
                 cmds |-> <<>>]

\* main.rs:163-196.  The response, and the commands handed to bot_tx.send.
dispatch(event, body) ==
    IF event = None
    THEN [response |-> FinishResponse(500), cmds |-> <<>>]
    ELSE CASE Unwrap(event) = "ping" ->
                IF ParsePing(body) = None
                THEN [response |-> ParseErrorResponse, cmds |-> <<>>]
                ELSE [response |-> JsonResponse(200, <<Unwrap(ParsePing(body)).zen>>),
                      cmds |-> <<>>]
           [] Unwrap(event) = "push" ->
                IF ParsePush(body) = None
                THEN [response |-> ParseErrorResponse, cmds |-> <<>>]
                ELSE LET request_body == Unwrap(ParsePush(body))
                     IN  IF check_0(request_body.after) \/ check_0(request_body.before)
                         THEN [response |-> FinishResponse(204), cmds |-> <<>>]
                         ELSE [response |-> JsonResponse(200, <<>>),
                               cmds |-> <<Data(request_body)>>]
           [] OTHER ->
                [response |-> JsonResponse(400, <<"Unsupported event type ", Unwrap(event)>>),
                 cmds |-> <<>>]

\* route_post_result classifying and parsing the event before it verifies
\* the signature.
route_post_result_dispatch_first(cfg, event, signature, body) ==
    LET res == dispatch(event, body)
        rejected == signature_check(cfg, signature, body)
    IN  IF res.response.status \notin {200, 204}
        THEN res
        ELSE IF rejected # None
        THEN [response |-> Unwrap(rejected), cmds |-> <<>>]
        ELSE res

route_post_result(cfg, event, signature, body) ==
    LET rejected == signature_check(cfg, signature, body)
    IN  IF rejected # None
        THEN [response |-> Unwrap(rejected), cmds |-> <<>>]
        ELSE dispatch(event, body)

(***************************************************************************)
(* Events as the worker reads them (datastructures.rs)                     *)
(***************************************************************************)
\* str::rsplit_once: None, or Some(<<before the last c, after it>>).
rsplit_once(s, c) ==
    IF \E i \in 1..Len(s) : s[i] = c
    THEN LET i == CHOOSE k \in 1..Len(s) :
                    s[k] = c /\ \A j \in (k + 1)..Len(s) : s[j] # c
         IN  Some(<<SubSeq(s, 1, i - 1), SubSeq(s, i + 1, Len(s))>>)
    ELSE None

\* GitHubPushEvent::branch_name without its unwrap: None is the panic.
branch_name(event) ==
    IF rsplit_once(event.remote_ref, "/") = None THEN None
    ELSE Some(Unwrap(rsplit_once(event.remote_ref, "/"))[2])

\* Commit::display without the slice's bounds check: None is the panic of
\* &self.id()[..8].
CommitDisplay(commit) ==
    IF Len(commit.id) < 8 THEN None
    ELSE Some([commit_id |-> SubSeq(commit.id, 1, 8), content |-> commit.message])

\* impl Display for GitHubPushEvent: None when formatting panics.
to_string(event) ==
    IF rsplit_once(event.remote_ref, "/") = None
       \/ \E k \in 1..Len(event.commits) : CommitDisplay(event.commits[k]) = None
    THEN None
    ELSE Some([repository |-> event.repository.full_name,
               branch |-> Unwrap(rsplit_once(event.remote_ref, "/"))[2],
               count |-> Len(event.commits),
               commits |-> [k \in 1..Len(event.commits) |->
                               Unwrap(CommitDisplay(event.commits[k]))]])

(***************************************************************************)
(* Bounds and program constants                                            *)
(***************************************************************************)
MaxConn == 1
MaxBodySize == 262144
ChannelCapacity == 1024

\* The connections of the server.
Conns == DOMAIN conn
\* Sizes of the chunks the payload stream yields.
ChunkSizes == {131072, 262144}

Idle == [pc |-> "idle", len |-> 0]
WorkerAt(pc, cmd, target) == [pc |-> pc, cmd |-> cmd, target |-> target]
\* The receiver half of the channel is gone: the worker returned or panicked.
Closed == worker.pc \in {"exit", "panic"}

\* refused: the accumulated size at which the body was refused, 0 when the
\* body was read to its end.
Out(r, refused, event, signature, body, response, cmds) ==
    Some([conn |-> r, refused |-> refused, event |-> event, signature |-> signature,
          body |-> body, response |-> response, cmds |-> cmds])

(***************************************************************************)
(* route_post (main.rs:127-197)                                            *)
(***************************************************************************)
\* A POST / request reaches the handler.
Accept(r) ==
    /\ main = "serving"
    /\ conn[r].pc = "idle"
    /\ conn' = [conn EXCEPT ![r] = [pc |-> "reading", len |-> 0]]
    /\ out' = None
    /\ UNCHANGED <<toml, config, lookup, lock, pending, queue, worker, calls, main>>

\* ReadChunk refusing a body that reaches the limit.
ReadChunk_at_limit(r, n) ==
    /\ conn[r].pc = "reading"
    /\ IF conn[r].len + n >= MaxBodySize
       THEN /\ conn' = [conn EXCEPT ![r] = Idle]
            /\ out' = Out(r, conn[r].len + n, None, None, None,
                          JsonResponse(400, <<"overflow">>), <<>>)
       ELSE /\ conn' = [conn EXCEPT ![r].len = conn[r].len + n]
            /\ out' = None
    /\ UNCHANGED <<toml, config, lookup, lock, pending, queue, worker, calls, main>>

\* payload.next() yields a chunk of n bytes (main.rs:134-142).
ReadChunk(r, n) ==
    /\ conn[r].pc = "reading"
    /\ IF conn[r].len + n > MaxBodySize
       THEN /\ conn' = [conn EXCEPT ![r] = Idle]
            /\ out' = Out(r, conn[r].len + n, None, None, None,
                          JsonResponse(400, <<"overflow">>), <<>>)
       ELSE /\ conn' = [conn EXCEPT ![r].len = conn[r].len + n]
            /\ out' = None
    /\ UNCHANGED <<toml, config, lookup, lock, pending, queue, worker, calls, main>>

\* payload.next() yields None: the body is complete, the handler asks for
\* the lock (main.rs:144).
EndOfBody(r) ==
    /\ conn[r].pc = "reading"
    /\ conn' = [conn EXCEPT ![r].pc = "lock"]
    /\ out' = None
    /\ UNCHANGED <<toml, config, lookup, lock, pending, queue, worker, calls, main>>

\* Handle with try_send in place of send: a command that finds the channel
\* full is dropped.
Handle_try_send(r, event, signature, body) ==
    /\ conn[r].pc = "lock"
    /\ lock = 0
    /\ LET res == route_post_result(config, event, signature, body)
       IN  IF res.cmds = <<>>
           THEN /\ out' = Out(r, 0, event, signature, Some(body), res.response, <<>>)
                /\ UNCHANGED queue
           ELSE IF Closed
           THEN /\ out' = Out(r, 0, event, signature, Some(body), NoResponse, <<>>)
                /\ UNCHANGED queue
           ELSE IF Len(queue) < ChannelCapacity
           THEN /\ queue' = queue \o res.cmds
                /\ out' = Out(r, 0, event, signature, Some(body),
                              res.response, res.cmds)
           ELSE /\ out' = Out(r, 0, event, signature, Some(body),
                              res.response, <<>>)
                /\ UNCHANGED queue
    /\ conn' = [conn EXCEPT ![r] = Idle]
    /\ UNCHANGED <<toml, config, lookup, lock, pending, worker, calls, main>>

\* Handle running without waiting for the lock.
Handle_without_lock(r, event, signature, body) ==
    /\ conn[r].pc = "lock"
    /\ LET res == route_post_result(config, event, signature, body)
       IN  IF res.cmds = <<>>
           THEN /\ out' = Out(r, 0, event, signature, Some(body), res.response, <<>>)
                /\ conn' = [conn EXCEPT ![r] = Idle]
                /\ UNCHANGED <<lock, pending, queue>>
           ELSE IF Closed
           THEN \* send returns Err, unwrap panics
                /\ out' = Out(r, 0, event, signature, Some(body), NoResponse, <<>>)
                /\ conn' = [conn EXCEPT ![r] = Idle]
                /\ UNCHANGED <<lock, pending, queue>>
           ELSE IF Len(queue) < ChannelCapacity
           THEN /\ queue' = queue \o res.cmds
                /\ out' = Out(r, 0, event, signature, Some(body),
                              res.response, res.cmds)
                /\ conn' = [conn EXCEPT ![r] = Idle]
                /\ UNCHANGED <<lock, pending>>
           ELSE /\ lock' = r
                /\ pending' = Some([conn |-> r, event |-> event, signature |-> signature,
                                    body |-> body, res |-> res])
                /\ conn' = [conn EXCEPT ![r].pc = "send"]
                /\ out' = None
                /\ UNCHANGED queue
    /\ UNCHANGED <<toml, config, lookup, worker, calls, main>>

\* The handler gets the lock and runs to its return, or to the point where
\* bot_tx.send must wait for room in the channel (main.rs:144-197).  The
\* headers and the body are those of the request; the guard is dropped on
\* return.
Handle(r, event, signature, body) ==
    /\ conn[r].pc = "lock"
    /\ lock = 0
    /\ LET res == route_post_result(config, event, signature, body)
       IN  IF res.cmds = <<>>
           THEN /\ out' = Out(r, 0, event, signature, Some(body), res.response, <<>>)
                /\ conn' = [conn EXCEPT ![r] = Idle]
                /\ UNCHANGED <<lock, pending, queue>>
           ELSE IF Closed
           THEN \* send returns Err, unwrap panics
                /\ out' = Out(r, 0, event, signature, Some(body), NoResponse, <<>>)
                /\ conn' = [conn EXCEPT ![r] = Idle]
                /\ UNCHANGED <<lock, pending, queue>>
           ELSE IF Len(queue) < ChannelCapacity
           THEN /\ queue' = queue \o res.cmds
                /\ out' = Out(r, 0, event, signature, Some(body),
                              res.response, res.cmds)
                /\ conn' = [conn EXCEPT ![r] = Idle]
                /\ UNCHANGED <<lock, pending>>
           ELSE /\ lock' = r
                /\ pending' = Some([conn |-> r, event |-> event, signature |-> signature,
                                    body |-> body, res |-> res])
                /\ conn' = [conn EXCEPT ![r].pc = "send"]
                /\ out' = None
                /\ UNCHANGED queue
    /\ UNCHANGED <<toml, config, lookup, worker, calls, main>>

\* bot_tx.send(..).await completes for the handler that was waiting for room.
SendResume(r) ==
    /\ conn[r].pc = "send"
    /\ pending # None
    /\ Closed \/ Len(queue) < ChannelCapacity
    /\ LET p == Unwrap(pending)
       IN  IF Closed
           THEN /\ out' = Out(r, 0, p.event, p.signature, Some(p.body), NoResponse, <<>>)
                /\ UNCHANGED queue
           ELSE /\ queue' = queue \o p.res.cmds
                /\ out' = Out(r, 0, p.event, p.signature, Some(p.body),
                              p.res.response, p.res.cmds)
    /\ conn' = [conn EXCEPT ![r] = Idle]
    /\ lock' = 0
    /\ pending' = None
    /\ UNCHANGED <<toml, config, lookup, worker, calls, main>>

(***************************************************************************)
(* process_send_message (main.rs:54-121)                                   *)
(***************************************************************************)
\* What the worker does with a Data command once it is received
\* (main.rs:79-88 and 96-97): the state it moves to.
ReceiveData(event) ==
    IF event.repository.full_name \in DOMAIN config.repo_mapping
    THEN LET repository == config.repo_mapping[event.repository.full_name]
             target == IF repository.send_to = <<>>
                       THEN config.telegram.send_to
                       ELSE repository.send_to
         IN  IF branch_name(event) = None
             THEN WorkerAt("panic", None, <<>>)
             ELSE IF \E k \in 1..Len(repository.branch_ignore) :
                        repository.branch_ignore[k] = Unwrap(branch_name(event))
             THEN WorkerAt("next", Some(Data(event)), <<>>)
             ELSE WorkerAt(IF target = <<>> THEN "next" ELSE "send",
                           Some(Data(event)), target)
    ELSE WorkerAt(IF config.telegram.send_to = <<>> THEN "next" ELSE "send",
                  Some(Data(event)), config.telegram.send_to)

\* WorkerRecv taking the newest command of the channel.
WorkerRecv_newest_first ==
    /\ worker.pc = "recv"
    /\ queue # <<>>
    /\ LET cmd == queue[Len(queue)]
           to == IF cmd.kind = "Terminate" THEN WorkerAt("exit", Some(cmd), <<>>)
                 ELSE IF config.telegram.bot_token = ""
                 THEN WorkerAt("next", Some(cmd), <<>>)
                 ELSE ReceiveData(Unwrap(cmd.event))
       IN  /\ worker' = to
           /\ queue' = IF to.pc \in {"exit", "panic"} THEN <<>>
                       ELSE SubSeq(queue, 1, Len(queue) - 1)
    /\ calls' = <<>>
    /\ out' = None
    /\ UNCHANGED <<toml, config, lookup, conn, lock, pending, main>>

\* WorkerRecv going on with the loop after Command::Terminate.
WorkerRecv_past_terminate ==
    /\ worker.pc = "recv"
    /\ queue # <<>>
    /\ LET cmd == Head(queue)
           to == IF cmd.kind = "Terminate" \/ config.telegram.bot_token = ""
                 THEN WorkerAt("next", Some(cmd), <<>>)
                 ELSE ReceiveData(Unwrap(cmd.event))
       IN  /\ worker' = to
           /\ queue' = IF to.pc \in {"exit", "panic"} THEN <<>> ELSE Tail(queue)
    /\ calls' = <<>>
    /\ out' = None
    /\ UNCHANGED <<toml, config, lookup, conn, lock, pending, main>>

\* rx.recv().await yields the oldest command (main.rs:63-67 and 77-78, 115).
WorkerRecv ==
    /\ worker.pc = "recv"
    /\ queue # <<>>
    /\ LET cmd == Head(queue)
           to == IF cmd.kind = "Terminate" THEN WorkerAt("exit", Some(cmd), <<>>)
                 ELSE IF config.telegram.bot_token = ""
                 THEN WorkerAt("next", Some(cmd), <<>>)
                 ELSE ReceiveData(Unwrap(cmd.event))
       IN  /\ worker' = to
           /\ queue' = IF to.pc \in {"exit", "panic"} THEN <<>> ELSE Tail(queue)
    /\ calls' = <<>>
    /\ out' = None
    /\ UNCHANGED <<toml, config, lookup, conn, lock, pending, main>>

\* WorkerSend leaving the loop at the first call that fails.
WorkerSend_until_error(ok) ==
    /\ worker.pc = "send"
    /\ LET text == to_string(Unwrap(Unwrap(worker.cmd).event))
       IN  IF text = None
           THEN /\ worker' = WorkerAt("panic", None, <<>>)
                /\ queue' = <<>>
                /\ calls' = <<>>
           ELSE /\ calls' = Append(calls, [send_to |-> Head(worker.target),
                                           text |-> Unwrap(text), ok |-> ok])
                /\ worker' = [worker EXCEPT
                                !.target = IF ok THEN Tail(worker.target) ELSE <<>>,
                                !.pc = IF ok /\ Tail(worker.target) # <<>>
                                       THEN "send" ELSE "next"]
                /\ UNCHANGED queue
    /\ out' = None
    /\ UNCHANGED <<toml, config, lookup, conn, lock, pending, main>>

\* One iteration of `for send_to in target`: format the event, call
\* send_message, log a failure (main.rs:89-95, 97-103).
WorkerSend(ok) ==
    /\ worker.pc = "send"
    /\ LET text == to_string(Unwrap(Unwrap(worker.cmd).event))
       IN  IF text = None
           THEN /\ worker' = WorkerAt("panic", None, <<>>)
                /\ queue' = <<>>
                /\ calls' = <<>>
           ELSE /\ calls' = Append(calls, [send_to |-> Head(worker.target),
                                           text |-> Unwrap(text), ok |-> ok])
                /\ worker' = [worker EXCEPT
                                !.target = Tail(worker.target),
                                !.pc = IF Tail(worker.target) = <<>> THEN "next" ELSE "send"]
                /\ UNCHANGED queue
    /\ out' = None
    /\ UNCHANGED <<toml, config, lookup, conn, lock, pending, main>>

\* The loop body ends: the command is dropped, the worker is back at
\* rx.recv().await.
WorkerNext ==
    /\ worker.pc = "next"
    /\ worker' = WorkerAt("recv", None, <<>>)
    /\ calls' = <<>>
    /\ out' = None
    /\ UNCHANGED <<toml, config, lookup, conn, lock, pending, queue, main>>

(***************************************************************************)
(* async_main (main.rs:242-246)                                            *)
(***************************************************************************)
\* server.await returns: the HTTP server has stopped.
StopServer ==
    /\ main = "serving"
    /\ \A r \in Conns : conn[r].pc = "idle"
    /\ main' = "stopped"
    /\ out' = None
    /\ UNCHANGED <<toml, config, lookup, conn, lock, pending, queue, worker, calls>>

\* bot_tx.send(Command::Terminate).await?
SendTerminate ==
    /\ main = "stopped"
    /\ Closed \/ Len(queue) < ChannelCapacity
    /\ IF Closed
       THEN main' = "failed" /\ UNCHANGED queue
       ELSE main' = "joining" /\ queue' = Append(queue, Terminate)
    /\ out' = None
    /\ UNCHANGED <<toml, config, lookup, conn, lock, pending, worker, calls>>

\* Join without the await on the worker's JoinHandle.
Join_without_await ==
    /\ main = "joining"
    /\ main' = "done"
    /\ out' = None
    /\ UNCHANGED <<toml, config, lookup, conn, lock, pending, queue, worker, calls>>

\* msg_sender.await??
Join ==
    /\ main = "joining"
    /\ Closed
    /\ main' = IF worker.pc = "exit" THEN "done" ELSE "failed"
    /\ out' = None
    /\ UNCHANGED <<toml, config, lookup, conn, lock, pending, queue, worker, calls>>

(***************************************************************************)
(* Specifications                                                          *)
(***************************************************************************)
InitWith(tomls) ==
    /\ toml \in tomls
    /\ config = ConfigFrom(toml)
    /\ lookup = None
    /\ conn = [r \in 1..MaxConn |-> Idle]
    /\ lock = 0
    /\ pending = None
    /\ queue = <<>>
    /\ worker = WorkerAt("recv", None, <<>>)
    /\ calls = <<>>
    /\ main = "serving"
    /\ out = None

\* Nothing is in flight: no request is being handled, the channel is empty
\* and the worker waits in rx.recv().
Quiet ==
    /\ \A r \in Conns : conn[r].pc = "idle"
    /\ queue = <<>>
    /\ pending = None
    /\ worker.pc \in {"recv", "exit", "panic"}

Init == InitWith(TomlConfigsServe)

\* Requests of every shape, sent one at a time: the sender waits until the
\* previous event has left the pipeline.
Next ==
    \/ \E r \in Conns : Quiet /\ Accept(r)
    \/ \E r \in Conns, n \in ChunkSizes : ReadChunk(r, n)
    \/ \E r \in Conns : EndOfBody(r)
    \/ \E r \in Conns :
          /\ conn[r].pc = "lock"
          /\ \E body \in Bodies :
                \E signature \in SignatureHeadersOf[body], event \in EventHeaders :
                    Handle(r, event, signature, body)
    \/ WorkerRecv
    \/ \E ok \in BOOLEAN : WorkerSend(ok)
    \/ WorkerNext
    \/ StopServer
    \/ SendTerminate
    \/ Join

Spec == Init /\ [][Next]_vars

\* Config::fetch_repository_configure called with a repository name.
Lookup(name) ==
    /\ lookup' = Some([name |-> name, repository |-> fetch_repository_configure(config, name)])
    /\ UNCHANGED <<toml, config, conn, lock, pending, queue, worker, calls, main, out>>

InitResolve == InitWith(TomlConfigsAll)

NextResolve == \E name \in FullNames : Lookup(name)

SpecResolve == InitResolve /\ [][NextResolve]_vars

\* The runtime keeps scheduling the worker task, and every call to the
\* messaging backend returns.
WorkerFairness ==
    /\ WF_vars(WorkerRecv)
    /\ WF_vars(\E ok \in BOOLEAN : WorkerSend(ok))
    /\ WF_vars(WorkerNext)

SpecFair == Spec /\ WorkerFairness

(***************************************************************************)
(* Requests sent while earlier events are still in the pipeline            *)
(***************************************************************************)
\* Senders hold back while this many commands wait in the channel.
MaxQueued == 2

\* One table at most, for org/repo, ignoring dev; no secret.
TomlConfigsQueue ==
    TomlConfigsOf({TomlRepositoryOf(None, Some(<<BranchDev>>), None)},
                  {None}, {IntegerValue(999)})

\* Pushes the handler enqueues: to main, to the ignored branch, and one
\* whose ref has no '/'.
BodiesQueue ==
    {BodyPush("org/repo", ref, <<"0","a">>, <<"0","a">>, <<CommitLong>>) :
        ref \in {RefMain, RefDev, RefBare}}

InitQueue == InitWith(TomlConfigsQueue)

NextQueue ==
    \/ \E r \in Conns : Len(queue) < MaxQueued /\ Accept(r)
    \/ \E r \in Conns, n \in ChunkSizes : ReadChunk(r, n)
    \/ \E r \in Conns : EndOfBody(r)
    \/ \E r \in Conns :
          /\ conn[r].pc = "lock"
          /\ \E body \in BodiesQueue : Handle(r, Some("push"), None, body)
    \/ WorkerRecv
    \/ \E ok \in BOOLEAN : WorkerSend(ok)
    \/ WorkerNext
    \/ StopServer
    \/ SendTerminate
    \/ Join

SpecQueue == InitQueue /\ [][NextQueue]_vars

\* One configuration that delivers every push to one chat, and one push.
\* Requests have arrived faster than the worker delivers: the channel already
\* holds all but two of the commands it has room for.
TomlConfigsFull ==
    {t \in TomlConfigsOf({}, {None}, {IntegerValue(999)}) : t.telegram.bot_token # ""}

BodyFull == BodyPush("org/repo", RefMain, <<"0","a">>, <<"0","a">>, <<>>)

InitFull ==
    /\ toml \in TomlConfigsFull
    /\ config = ConfigFrom(toml)
    /\ lookup = None
    /\ conn = [r \in 1..MaxConn |-> Idle]
    /\ lock = 0
    /\ pending = None
    /\ queue = [k \in 1..(ChannelCapacity - 2) |-> Data(Unwrap(ParsePush(BodyFull)))]
    /\ worker = WorkerAt("recv", None, <<>>)
    /\ calls = <<>>
    /\ main = "serving"
    /\ out = None

NextFull ==
    \/ \E r \in Conns : Accept(r)
    \/ \E r \in Conns, n \in ChunkSizes : ReadChunk(r, n)
    \/ \E r \in Conns : EndOfBody(r)
    \/ \E r \in Conns : Handle(r, Some("push"), None, BodyFull)
    \/ \E r \in Conns : SendResume(r)
    \/ WorkerRecv
    \/ \E ok \in BOOLEAN : WorkerSend(ok)
    \/ WorkerNext
    \/ StopServer
    \/ SendTerminate
    \/ Join

SpecFull == InitFull /\ [][NextFull]_vars

(***************************************************************************)
(* Concurrent requests against a full channel                              *)
(***************************************************************************)
\* Connections handled at the same time.
MaxHandlers == 2
\* The messaging backend is slow: it answers a call only while the channel
\* holds all but this many of the commands it has room for.
MaxDrained == 1

\* Requests have arrived faster than the worker delivers: the channel has
\* room for one more command.
InitMutex ==
    /\ toml \in TomlConfigsFull
    /\ config = ConfigFrom(toml)
    /\ lookup = None
    /\ conn = [r \in 1..MaxHandlers |-> Idle]
    /\ lock = 0
    /\ pending = None
    /\ queue = [k \in 1..(ChannelCapacity - 1) |-> Data(Unwrap(ParsePush(BodyFull)))]
    /\ worker = WorkerAt("recv", None, <<>>)
    /\ calls = <<>>
    /\ main = "serving"
    /\ out = None

\* What the requests carry: a push that is enqueued, a ping, and a request
\* without the event header.
RequestsMutex ==
    {[event |-> Some("push"), body |-> BodyFull],
     [event |-> Some("ping"), body |-> BodyPing],
     [event |-> None, body |-> BodyPing]}

\* route_post runs for the request of connection r.
HandleMutex(r) ==
    \E q \in RequestsMutex : Handle(r, q.event, None, q.body)

\* The backend answers the worker's call.
BackendMutex ==
    /\ Len(queue) >= ChannelCapacity - MaxDrained
    /\ \E ok \in BOOLEAN : WorkerSend(ok)

\* The server keeps serving; requests arrive on every connection.
NextMutex ==
    \/ \E r \in Conns : Accept(r)
    \/ \E r \in Conns, n \in ChunkSizes : ReadChunk(r, n)
    \/ \E r \in Conns : EndOfBody(r)
    \/ \E r \in Conns : HandleMutex(r)
    \/ \E r \in Conns : SendResume(r)
    \/ WorkerRecv
    \/ BackendMutex
    \/ WorkerNext

\* The runtime keeps scheduling the worker and the handlers; the mutex hands
\* the lock to its waiters in turn, and a sender waiting for room gets it
\* once there is some.
FairnessMutex ==
    /\ WF_vars(WorkerRecv)
    /\ WF_vars(BackendMutex)
    /\ WF_vars(WorkerNext)
    /\ \A r \in 1..MaxHandlers : SF_vars(HandleMutex(r))
    /\ \A r \in 1..MaxHandlers : WF_vars(SendResume(r))

SpecMutex == InitMutex /\ [][NextMutex]_vars /\ FairnessMutex

(***************************************************************************)
(* AuthorizationGuard (datastructures.rs:260-293)                          *)
(***************************************************************************)
\* The characters of the strings used as tokens.
Chars(s) ==
    CASE s = "" -> <<>>
      [] s = "tk" -> <<"t", "k">>
      [] s = "t=k" -> <<"t", "=", "k">>
      [] s = "t&k" -> <<"t", "&", "k">>

\* str::contains(char)
contains(s, c) == \E i \in 1..Len(s) : s[i] = c

\* str::split_once(char): the parts before and after the first c.
split_once(s, c) ==
    IF contains(s, c)
    THEN LET i == CHOOSE k \in 1..Len(s) : s[k] = c /\ \A j \in 1..(k - 1) : s[j] # c
         IN  Some(<<SubSeq(s, 1, i - 1), SubSeq(s, i + 1, Len(s))>>)
    ELSE None

\* str::split(char): the pieces between the occurrences of c.
RECURSIVE split(_, _)
split(s, c) ==
    IF contains(s, c)
    THEN LET parts == Unwrap(split_once(s, c))
         IN  <<parts[1]>> \o split(parts[2], c)
    ELSE <<s>>

\* checker that looks at the key alone.
checker_key_only(token, query) ==
    /\ contains(query, "=")
    /\ Unwrap(split_once(query, "="))[1] = <<"t", "o", "k", "e", "n">>

\* The closure checker: one piece of the query string against the token.
checker(token, query) ==
    /\ contains(query, "=")
    /\ LET key == Unwrap(split_once(query, "="))[1]
           value == Unwrap(split_once(query, "="))[2]
       IN  key = <<"t", "o", "k", "e", "n">> /\ value = Chars(token)

\* AuthorizationGuard::from_request: TRUE is Ok(Self {}), FALSE is
\* Err(StatusCode::FORBIDDEN).  queries is req.uri().query().
from_request(token, queries) ==
    IF token = ""
    THEN TRUE
    ELSE /\ queries # None
         /\ LET pieces == split(Unwrap(queries), "&")
            IN  \E k \in 1..Len(pieces) : checker(token, pieces[k])

\* Query parameters, and the query strings of one or two of them.
QueryParameters ==
    {<<"t", "o", "k", "e", "n", "=", "t", "k">>,
     <<"t", "o", "k", "e", "n", "=", "t", "=", "k">>,
     <<"t", "o", "k", "e", "n", "=", "t">>,
     <<"t", "o", "k", "e", "n", "=", "t", "k", "k">>,
     <<"t", "o", "k", "e", "n">>,
     <<"t", "o", "k", "e", "n", "=">>,
     <<"T", "o", "k", "e", "n", "=", "t", "k">>,
     <<"x", "t", "o", "k", "e", "n", "=", "t", "k">>,
     <<"a", "=", "t", "o", "k", "e", "n", "=", "t", "k">>,
     <<>>,
     <<"=", "t", "k">>}

Queries ==
    {None} \cup {Some(p) : p \in QueryParameters}
           \cup {Some(p \o <<"&">> \o q) : p \in QueryParameters, q \in QueryParameters}

\* A POST / request arrives with a query string: the guard lets it reach
\* route_post, or it is answered 403 and the handler does not run.
Arrive(r, queries) ==
    /\ main = "serving"
    /\ conn[r].pc = "idle"
    /\ IF from_request(config.server.token, queries)
       THEN /\ conn' = [conn EXCEPT ![r] = [pc |-> "reading", len |-> 0,
                                            query |-> queries]]
            /\ out' = None
       ELSE /\ conn' = conn
            /\ out' = Some([conn |-> r, query |-> queries,
                            response |-> FinishResponse(403), cmds |-> <<>>])
    /\ UNCHANGED <<toml, config, lookup, lock, pending, queue, worker, calls, main>>

\* One destination, no secret, and every kind of token.
TomlConfigsGuard ==
    {[t EXCEPT !.server.token = k] :
        t \in TomlConfigsFull, k \in {None, Some(""), Some("tk"), Some("t=k"), Some("t&k")}}

InitGuard == InitWith(TomlConfigsGuard)

\* Requests with every query string, sent one at a time.
NextGuard ==
    \/ \E r \in Conns, queries \in Queries : Quiet /\ Arrive(r, queries)
    \/ \E r \in Conns, n \in ChunkSizes : ReadChunk(r, n)
    \/ \E r \in Conns : EndOfBody(r)
    \/ \E r \in Conns : Handle(r, Some("push"), None, BodyFull)
    \/ WorkerRecv
    \/ \E ok \in BOOLEAN : WorkerSend(ok)
    \/ WorkerNext
    \/ StopServer
    \/ SendTerminate
    \/ Join

SpecGuard == InitGuard /\ [][NextGuard]_vars

(***************************************************************************)
(* Properties                                                              *)
(***************************************************************************)
\* route_post returned in the step just taken, after reading the whole body.
Handled == out # None /\ Unwrap(out).body # None
Request == Unwrap(out)
RequestBody == Unwrap(Unwrap(out).body)

\* The header value GitHub sends for a body signed with a secret.
SignatureOf(secret, body) == Some(FormatSha256(HmacSha256(secret, body)))

\* The signature header carries "sha256=" and the digest's hex digits in
\* either case.
MatchesIgnoringHexCase(signature, secret, body) ==
    /\ signature # None
    /\ Len(Unwrap(signature)) = Len(Unwrap(SignatureOf(secret, body)))
    /\ SubSeq(Unwrap(signature), 1, Len(Sha256Prefix)) = Sha256Prefix
    /\ to_lowercase(Unwrap(signature)) = Unwrap(SignatureOf(secret, body))

\* The secret the router resolves for the repository a body names: the
\* repository entry's own secret, the global one when there is no entry.
ResolvedSecret(body) ==
    IF body.repository # None /\ Unwrap(body.repository) \in DOMAIN config.repo_mapping
    THEN config.repo_mapping[Unwrap(body.repository)].secrets
    ELSE config.server.secrets

AllZero(hash) == \A i \in 1..Len(hash) : hash[i] = "0"

\* C1, as claimed: under a non-empty secret a request passes verification
\* exactly if its signature header is "sha256=" and the hex HMAC of the body,
\* the hex digits compared without regard to case; any other header is
\* answered 403 "signature mismatch" and nothing is enqueued.
C1_SignatureIgnoringCase ==
    (Handled /\ config.server.secrets # "") =>
        LET matches == MatchesIgnoringHexCase(Request.signature, config.server.secrets,
                                              RequestBody)
        IN  /\ (Request.response.status # 403) <=> matches
            /\ (Request.signature # None /\ ~matches) =>
                  /\ Request.response = JsonResponse(403, <<"signature mismatch">>)
                  /\ queue = <<>>

\* C1, amended: under a non-empty secret a request passes verification
\* exactly if its signature header equals, byte for byte, "sha256=" and the
\* lower-case hex HMAC-SHA256 of the raw body under that secret; any other
\* header value is answered 403 with reason "Checksum error" and nothing is
\* enqueued.
C1_SignatureExact ==
    (Handled /\ config.server.secrets # "") =>
        LET matches == Request.signature = SignatureOf(config.server.secrets, RequestBody)
        IN  /\ (Request.response.status # 403) <=> matches
            /\ (Request.signature # None /\ ~matches) =>
                  /\ Request.response = JsonResponse(403, <<"Checksum error">>)
                  /\ queue = <<>>

\* A header with the right digest in upper-case hex was rejected.
C1_Witness ==
    /\ Handled
    /\ config.server.secrets # ""
    /\ Request.signature # SignatureOf(config.server.secrets, RequestBody)
    /\ MatchesIgnoringHexCase(Request.signature, config.server.secrets, RequestBody)
    /\ Request.response.status = 403

\* C2: a request without a signature header, for a repository whose resolved
\* secret is non-empty, is answered 403 "signature header missing" and
\* enqueues nothing.
C2_MissingHeaderRejected ==
    (Handled /\ ResolvedSecret(RequestBody) # "" /\ Request.signature = None) =>
        /\ Request.response = JsonResponse(403, <<"signature header missing">>)
        /\ queue = <<>>

\* C3: the signature is verified against the secret resolved for the
\* repository the body names: skipped when that secret is empty, otherwise
\* passed exactly by the digest under that secret.
C3_VerifiesWithResolvedSecret ==
    (Handled /\ RequestBody.repository # None) =>
        LET secret == ResolvedSecret(RequestBody)
        IN  IF secret = "" THEN Request.response.status # 403
            ELSE (Request.response.status # 403)
                    <=> Request.signature = SignatureOf(secret, RequestBody)

\* What a request with these headers and this body gets when it is signed
\* correctly under a configured secret, in the current state of the channel.
AnswerWhenSigned(event, body) ==
    LET signed == route_post_result([config EXCEPT !.server.secrets = "s3cr3t"],
                                    event, SignatureOf("s3cr3t", body), body)
    IN  IF signed.cmds # <<>> /\ Closed
        THEN [response |-> NoResponse, cmds |-> <<>>]
        ELSE signed

\* C4: with an empty secret no request is answered 403, whatever its
\* signature header, and the response and the command enqueued are those of
\* the same request correctly signed under a configured secret.
C4_EmptySecretSkipsVerification ==
    (Handled /\ config.server.secrets = "") =>
        /\ Request.response.status # 403
        /\ Request.response = AnswerWhenSigned(Request.event, RequestBody).response
        /\ queue = AnswerWhenSigned(Request.event, RequestBody).cmds

\* With an empty secret a push carrying a signature made with some secret
\* was accepted and enqueued.
C4_Witness ==
    /\ Handled
    /\ config.server.secrets = ""
    /\ Request.signature = SignatureOf("s3cr3t", RequestBody)
    /\ Request.response.status = 200
    /\ queue # <<>>

\* The push event of the request handled names a branch on the ignore list
\* of its repository's entry.
IgnoredBranch(body) ==
    /\ ParsePush(body) # None
    /\ Unwrap(body.repository) \in DOMAIN config.repo_mapping
    /\ branch_name(Unwrap(ParsePush(body))) # None
    /\ \E k \in 1..Len(config.repo_mapping[Unwrap(body.repository)].branch_ignore) :
          config.repo_mapping[Unwrap(body.repository)].branch_ignore[k]
             = Unwrap(branch_name(Unwrap(ParsePush(body))))

\* C5: a verified push to a branch on the ignore list of its repository is
\* answered 204 and enqueues nothing.
C5_IgnoredBranchSkipped ==
    (Handled /\ Request.event = Some("push") /\ Request.response.status # 403
        /\ IgnoredBranch(RequestBody)) =>
        /\ Request.response.status = 204
        /\ queue = <<>>

\* C6: a verified push whose before or after hash is all '0' (the empty
\* hash included: it has no other character) is answered 204 with an
\* empty body and enqueues nothing, whatever its branch and the ignore
\* list; a push with neither hash all '0' is never answered 204.
C6_ZeroHashShortCircuit ==
    (Handled /\ Request.event = Some("push") /\ Request.response.status # 403
        /\ ParsePush(RequestBody) # None) =>
        LET push == Unwrap(RequestBody.push)
        IN  IF AllZero(push.before) \/ AllZero(push.after)
            THEN Request.response = FinishResponse(204) /\ queue = <<>>
            ELSE Request.response.status # 204

\* A push to an ignored branch with an all-zero after hash and another
\* before hash was answered 204.
C6_Witness ==
    /\ Handled
    /\ Request.event = Some("push")
    /\ IgnoredBranch(RequestBody)
    /\ Unwrap(RequestBody.push).after = <<"0","0">>
    /\ Unwrap(RequestBody.push).before = <<"0","a">>
    /\ Request.response = FinishResponse(204)

\* The destinations the router resolves for a repository: the entry's own
\* list when it has one that is not empty, the global list otherwise.
ResolvedDestinations(name) ==
    IF name \in DOMAIN config.repo_mapping /\ config.repo_mapping[name].send_to # <<>>
    THEN config.repo_mapping[name].send_to
    ELSE config.telegram.send_to

\* C7: a push signed with the secret resolved for its repository, with
\* neither hash all '0', on a branch that is not ignored, is answered 200
\* and enqueues exactly one command; and (the bot token being set) when the
\* worker has dealt with such a command it has made one call to each
\* resolved destination, in order.
C7_PushDelivered ==
    /\ (Handled /\ Request.event = Some("push") /\ ParsePush(RequestBody) # None
           /\ ~AllZero(Unwrap(RequestBody.push).before)
           /\ ~AllZero(Unwrap(RequestBody.push).after)
           /\ branch_name(Unwrap(ParsePush(RequestBody))) # None
           /\ ~IgnoredBranch(RequestBody)
           /\ ResolvedSecret(RequestBody) # ""
           /\ Request.signature = SignatureOf(ResolvedSecret(RequestBody), RequestBody)) =>
          /\ Request.response.status = 200
          /\ queue = <<Data(Unwrap(ParsePush(RequestBody)))>>
    /\ (worker.pc = "next" /\ Unwrap(worker.cmd).kind = "Data"
           /\ config.telegram.bot_token # ""
           /\ ~IgnoredBranch([json |-> TRUE, zen |-> None,
                              push |-> Some(Unwrap(Unwrap(worker.cmd).event)),
                              repository |->
                                 Some(Unwrap(Unwrap(worker.cmd).event).repository.full_name)])) =>
          [k \in 1..Len(calls) |-> calls[k].send_to]
             = ResolvedDestinations(Unwrap(Unwrap(worker.cmd).event).repository.full_name)

\* The repository tables of the configuration file do not name the
\* repository.
NotInTable(name) ==
    \/ toml.repository = None
    \/ \A k \in 1..Len(Unwrap(toml.repository)) : Unwrap(toml.repository)[k].full_name # name

Looked == Unwrap(lookup)

\* C8: for a repository name that no table of the configuration names,
\* fetch_repository_configure returns the global destination list, the
\* global secret and an empty branch-ignore list.
C8_MissingRepositoryGetsDefaults ==
    (lookup # None /\ NotInTable(Looked.name)) =>
        Looked.repository = [send_to |-> config.telegram.send_to,
                             branch_ignore |-> <<>>,
                             secrets |-> config.server.secrets]

\* A name without a table was looked up while another repository has one
\* and a global secret and global destinations are configured.
C8_Witness ==
    /\ lookup # None
    /\ NotInTable(Looked.name)
    /\ toml.repository # None
    /\ config.server.secrets # ""
    /\ config.telegram.send_to # <<>>
    /\ Looked.repository.secrets = config.server.secrets

\* C9: for an entry with an empty destination list the lookup returns the
\* global destinations with the entry's own secret and branch-ignore list;
\* for an entry with destinations it returns the entry's own list.
C9_EmptyDestinationsFallBack ==
    (lookup # None /\ ~NotInTable(Looked.name)) =>
        LET entry == config.repo_mapping[Looked.name]
        IN  /\ Looked.repository.send_to
                  = IF entry.send_to = <<>> THEN config.telegram.send_to ELSE entry.send_to
            /\ Looked.repository.secrets = entry.secrets
            /\ Looked.repository.branch_ignore = entry.branch_ignore

\* C10: the secret the lookup returns is the entry's override when there is
\* an entry with a non-empty secret, and the global secret otherwise.
C10_EffectiveSecret ==
    lookup # None =>
        Looked.repository.secrets
           = IF ~NotInTable(Looked.name) /\ config.repo_mapping[Looked.name].secrets # ""
             THEN config.repo_mapping[Looked.name].secrets
             ELSE config.server.secrets

\* The request just answered passed the signature check: there is no secret,
\* or its header is the digest of its body under the secret.
Verified ==
    /\ Handled
    /\ \/ config.server.secrets = ""
       \/ Request.signature = SignatureOf(config.server.secrets, RequestBody)

\* C11: the body buffered for a request never holds more than 262144 bytes;
\* a request is answered 400 "overflow" exactly when the chunk just read
\* would have taken the accumulated size over 262144 bytes, and then nothing
\* of the request was verified, parsed or enqueued; a body of exactly 262144
\* bytes is read to its end and handled.
C11_BodySizeBounded ==
    /\ \A r \in Conns : conn[r].len <= 262144
    /\ out # None =>
          /\ (Request.response = JsonResponse(400, <<"overflow">>))
                <=> (Request.refused > 262144)
          /\ Request.body # None <=> Request.refused = 0
          /\ Request.refused # 0 =>
                /\ Request.event = None /\ Request.signature = None
                /\ Request.cmds = <<>>
                /\ queue = <<>>

\* A body of exactly 262144 bytes has been read to its end in two chunks and
\* the handler goes on to the lock.
C11_Witness ==
    \E r \in Conns :
        /\ conn[r].pc = "lock"
        /\ conn[r].len = 262144
        /\ out = None

\* C12: a verified ping is answered 200 with the payload's zen as the
\* reason, and the step that answers it enqueues nothing and leaves the
\* configuration, the lock, the channel, the worker and async_main as they
\* were; so the answer to a ping depends on its payload alone.
C12_PingEchoesZen ==
    [][(out' # None /\ Unwrap(out').body # None
          /\ Unwrap(out').event = Some("ping")
          /\ ParsePing(Unwrap(Unwrap(out').body)) # None
          /\ \/ config.server.secrets = ""
             \/ Unwrap(out').signature
                  = SignatureOf(config.server.secrets, Unwrap(Unwrap(out').body)))
        => /\ Unwrap(out').response
                = JsonResponse(200, <<Unwrap(Unwrap(Unwrap(out').body).zen)>>)
           /\ Unwrap(out').cmds = <<>>
           /\ UNCHANGED <<toml, config, lookup, lock, pending, queue, worker, calls, main>>]_vars

\* A signed ping was answered with its zen while the worker, after an
\* earlier push, is no longer running.
C12_Witness ==
    /\ Verified
    /\ config.server.secrets # ""
    /\ Request.event = Some("ping")
    /\ Request.response
          = JsonResponse(200, <<"Half measures are as bad as nothing at all.">>)
    /\ worker.pc = "panic"

Unparsable ==
    \/ Request.event = Some("ping") /\ (~RequestBody.json \/ RequestBody.zen = None)
    \/ Request.event = Some("push")
          /\ (~RequestBody.json \/ RequestBody.push = None \/ RequestBody.repository = None)

\* C14: a verified ping or push whose body does not parse as that kind is
\* answered 500 with the parse error's description, and nothing is enqueued.
C14_ParseError ==
    (Verified /\ Unparsable) =>
        /\ Request.response.status = 500
        /\ Request.response.reason = <<"serde_json::Error">>
        /\ Request.cmds = <<>>
        /\ queue = <<>>

\* A push event whose body is a ping payload was answered 500.
C14_Witness ==
    /\ Verified
    /\ Request.event = Some("push")
    /\ RequestBody = BodyPing
    /\ Request.response.status = 500

\* The destinations of the calls made so far for the command in hand.
Called == [k \in 1..Len(calls) |-> calls[k].send_to]

\* The worker holds a Data command that it delivers: the bot token is set
\* and the branch is not ignored.
Delivering ==
    /\ worker.cmd # None
    /\ Unwrap(worker.cmd).kind = "Data"
    /\ config.telegram.bot_token # ""
    /\ ~IgnoredBranch([json |-> TRUE, zen |-> None,
                       push |-> Some(Unwrap(Unwrap(worker.cmd).event)),
                       repository |->
                          Some(Unwrap(Unwrap(worker.cmd).event).repository.full_name)])

\* C15: while the worker delivers a command with destinations d1..dn the
\* calls made so far followed by the destinations still to serve are
\* d1..dn, so that at the end of the command exactly one call has been made
\* per destination, in list order; and a call that fails is followed by the
\* call for the next destination or by the end of the command, the worker
\* still running and the channel untouched.
C15_OneCallPerDestination ==
    /\ [](Delivering =>
            /\ worker.pc \in {"send", "next"}
            /\ Called \o worker.target
                  = ResolvedDestinations(Unwrap(Unwrap(worker.cmd).event).repository.full_name)
            /\ worker.pc = "next" => worker.target = <<>>)
    /\ [][(Len(calls') = Len(calls) + 1 /\ ~calls'[Len(calls')].ok) =>
            /\ SubSeq(calls', 1, Len(calls)) = calls
            /\ calls'[Len(calls')].send_to = Head(worker.target)
            /\ worker'.target = Tail(worker.target)
            /\ worker'.pc = IF worker'.target = <<>> THEN "next" ELSE "send"
            /\ worker'.cmd = worker.cmd
            /\ queue' = queue]_vars

\* The first of two calls failed and the second was made all the same.
C15_Witness ==
    /\ Delivering
    /\ worker.pc = "next"
    /\ Len(calls) = 2
    /\ ~calls[1].ok
    /\ calls[2].ok
    /\ calls[1].send_to # calls[2].send_to

\* C16: the worker that takes Terminate from the channel stops there: the
\* commands behind it are dropped with the receiver, and from then on the
\* worker neither takes a command nor makes a call.
C16_TerminateStopsWorker ==
    /\ [](worker.pc = "exit" =>
            /\ worker.cmd = Some(Terminate)
            /\ queue = <<>>
            /\ calls = <<>>)
    /\ [][/\ (worker.pc = "recv" /\ worker' # worker /\ Head(queue) = Terminate) =>
               worker'.pc = "exit" /\ queue' = <<>> /\ calls' = <<>>
          /\ worker.pc = "exit" => worker' = worker /\ calls' = calls /\ queue' = queue]_vars

\* The worker has returned after Terminate and async_main has joined it.
C16_Witness ==
    /\ worker.pc = "exit"
    /\ worker.cmd = Some(Terminate)
    /\ main = "done"

\* C17: with an empty bot token the worker makes no call; and in every
\* configuration, once Terminate is in the channel the worker eventually
\* returns.
C17_TerminateAlwaysHonoured ==
    /\ [](config.telegram.bot_token = "" => calls = <<>> /\ worker.pc # "send")
    /\ (\E k \in 1..Len(queue) : queue[k] = Terminate) ~> (worker.pc = "exit")

\* The step takes the oldest command out of the channel into the worker.
TakesHead ==
    /\ worker.pc = "recv"
    /\ queue # <<>>
    /\ worker'.cmd = Some(Head(queue))
    /\ queue' = Tail(queue)

\* The step puts one command at the back of the channel.
PutsLast ==
    /\ Len(queue') = Len(queue) + 1
    /\ SubSeq(queue', 1, Len(queue)) = queue
    /\ worker' = worker

\* The step ends the worker: on Terminate at the head of the channel, or by
\* a panic; the receiver is dropped and the channel with it.
EndsWorker ==
    /\ worker.pc \in {"recv", "send"}
    /\ queue' = <<>>
    /\ \/ /\ worker.pc = "recv" /\ queue # <<>> /\ Head(queue) = Terminate
          /\ worker' = WorkerAt("exit", Some(Terminate), <<>>)
       \/ worker'.pc = "panic"

\* C18: the channel changes only by a command put at its back, by the
\* worker taking the command at its front, or by the worker ending; the
\* worker gets a command only by taking the front of the channel, which
\* removes it; and the worker returns on Terminate only when Terminate is at
\* the front, every command put in before it having been taken.
C18_Fifo ==
    [][/\ queue' # queue => (PutsLast \/ TakesHead \/ EndsWorker)
       /\ (worker'.cmd # worker.cmd /\ worker'.cmd # None) =>
             /\ worker.pc = "recv" /\ queue # <<>>
             /\ worker'.cmd = Some(Head(queue))
             /\ queue' = IF worker'.pc = "exit" THEN <<>> ELSE Tail(queue)
       /\ (worker'.pc = "exit" /\ worker.pc # "exit") =>
             Head(queue) = Terminate /\ Len(queue) = 1]_vars

\* The worker works on the first of two different pushes while the second
\* and Terminate wait in the channel.
C18_Witness ==
    /\ worker.pc = "send"
    /\ Len(queue) = 2
    /\ queue[1].kind = "Data"
    /\ queue[1] # Unwrap(worker.cmd)
    /\ queue[2] = Terminate

\* The worker task has neither returned nor panicked after the step.
RunningNext == worker'.pc \notin {"exit", "panic"}

\* C19: the channel never holds more than 1024 commands; a handler that
\* finds it full keeps the lock and its command and waits, and gets on only
\* when there is room, its command then going to the back of the channel; a
\* push is answered 200 only in the step that puts its command into the
\* channel; and while the worker runs a command leaves the channel only by
\* the worker taking it.
C19_BoundedQueue ==
    /\ [](Len(queue) <= 1024)
    /\ [][/\ \A r \in Conns :
               (conn[r].pc = "lock" /\ conn'[r].pc = "send") =>
                  /\ Len(queue) = 1024 /\ queue' = queue
                  /\ lock' = r /\ pending' # None /\ out' = None
          /\ \A r \in Conns :
               (conn[r].pc = "send" /\ conn'[r].pc # "send" /\ RunningNext) =>
                  /\ Len(queue) < 1024
                  /\ queue' = queue \o Unwrap(pending).res.cmds
                  /\ out' # None /\ Unwrap(out').response.status = 200
          /\ (out' # None /\ Unwrap(out').event = Some("push")
                /\ Unwrap(out').response.status = 200) =>
                  queue' = Append(queue, Data(Unwrap(ParsePush(Unwrap(Unwrap(out').body)))))
          /\ (RunningNext /\ queue' # queue) => (PutsLast \/ TakesHead)]_vars

\* A handler waits, holding the lock, for room in the full channel.
C19_Witness ==
    \E r \in Conns :
        /\ conn[r].pc = "send"
        /\ lock = r
        /\ pending # None
        /\ Len(queue) = 1024

\* The positions of Terminate in the channel.
TerminateAt == {k \in 1..Len(queue) : queue[k] = Terminate}

HasTokenParameter(token, q) ==
    LET want == <<"t", "o", "k", "e", "n", "=">> \o Chars(token)
    IN  /\ \A k \in 1..Len(want) : want[k] # "&"
        /\ \E i \in 1..(Len(q) + 1) :
              /\ i = 1 \/ q[i - 1] = "&"
              /\ i + Len(want) - 1 <= Len(q)
              /\ SubSeq(q, i, i + Len(want) - 1) = want
              /\ i + Len(want) = Len(q) + 1 \/ q[i + Len(want)] = "&"

Authorized(token, queries) ==
    token = "" \/ (queries # None /\ HasTokenParameter(token, Unwrap(queries)))

\* The guard answered in the step just taken.
Forbidden == out # None /\ "query" \in DOMAIN Unwrap(out)

ZeroHashShortCircuit ==
    /\ Handled
    /\ Request.event = Some("push")
    /\ ParsePush(RequestBody) # None
    /\ AllZero(Unwrap(RequestBody.push).before) \/ AllZero(Unwrap(RequestBody.push).after)

\* C22, as claimed: every response route_post produces is a JSON object
\* (version, status, reason), except the answer to the zero-hash
\* short-circuit, which is the only one with an empty body.
C22_JsonExceptZeroHash ==
    (out # None /\ Request.response.body # "none") =>
        \/ Request.response.body = "json"
        \/ Request.response.body = "empty" /\ ZeroHashShortCircuit

\* The push events handed to the worker: those waiting in the channel and
\* the one it is working on.
PushEvents ==
    {Unwrap(queue[k].event) : k \in {i \in 1..Len(queue) : queue[i].kind = "Data"}}
        \cup (IF worker.cmd # None /\ Unwrap(worker.cmd).kind = "Data"
              THEN {Unwrap(Unwrap(worker.cmd).event)} ELSE {})

\* b is what follows the last '/' of ref.
AfterLastSlash(b, ref) ==
    \E i \in 1..Len(ref) :
        /\ ref[i] = "/"
        /\ b = SubSeq(ref, i + 1, Len(ref))
        /\ \A k \in 1..Len(b) : b[k] # "/"

\* C23, as claimed: for every push event branch_name returns what follows
\* the last '/' of its ref; the worker skips the event exactly if that value
\* is in the repository's ignore list, and the formatted message shows it.
C23_BranchNameIsRefSuffix ==
    \A event \in PushEvents :
        /\ branch_name(event) # None
        /\ AfterLastSlash(Unwrap(branch_name(event)), event.remote_ref)
        /\ to_string(event) # None =>
              Unwrap(to_string(event)).branch = Unwrap(branch_name(event))
        /\ (worker.cmd = Some(Data(event)) /\ worker.pc = "send"
              /\ event.repository.full_name \in DOMAIN config.repo_mapping) =>
              LET ignore == config.repo_mapping[event.repository.full_name].branch_ignore
              IN  \A k \in 1..Len(ignore) : ~AfterLastSlash(ignore[k], event.remote_ref)

\* The worker consumes Terminate in this step.
ConsumesTerminate ==
    /\ worker.pc = "recv"
    /\ queue # <<>>
    /\ Head(queue).kind = "Terminate"
    /\ worker'.pc = "exit"

\* C24, as claimed: the worker stops running only by consuming Terminate;
\* no push that route_post accepted makes it stop.
C24_WorkerStopsOnlyOnTerminate ==
    [][(worker.pc \in {"recv", "send", "next"} /\ worker'.pc \notin {"recv", "send", "next"})
          => ConsumesTerminate]_vars

\* A handler puts a delivery command into the channel in this step.
EnqueuesData ==
    /\ Len(queue') = Len(queue) + 1
    /\ queue'[Len(queue')].kind = "Data"

\* C25, as claimed: no handler enqueues a delivery command once Terminate has
\* been enqueued or the worker has ended, and bot_tx.send in route_post never
\* returns an error: its unwrap never fires.
C25_EnqueueNeverFails ==
    /\ [](out # None => Request.response # NoResponse)
    /\ [][EnqueuesData =>
            /\ ~Closed
            /\ main = "serving"
            /\ \A k \in 1..Len(queue) : queue[k].kind # "Terminate"]_vars

\* The request just answered fails the signature check: a secret is
\* configured and the header is missing or is not the digest of the body.
FailsVerification ==
    /\ Handled
    /\ config.server.secrets # ""
    /\ Request.signature # SignatureOf(config.server.secrets, RequestBody)

\* C26: the body-size bound is checked first, the signature second, the
\* event type and the payload last: a refused body is answered 400 whatever
\* else the request holds, and a request that fails the signature check is
\* answered 403 with a JSON reason and enqueues nothing, whatever its event
\* header and body are; no other request is answered 403.
C26_ChecksInFixedOrder ==
    /\ (out # None /\ Request.refused > 0) =>
          Request.response = JsonResponse(400, <<"overflow">>)
    /\ FailsVerification =>
          /\ Request.response.status = 403
          /\ Request.response.body = "json"
          /\ Request.cmds = <<>>
          /\ queue = <<>>
    /\ (Handled /\ Request.response.status = 403) => FailsVerification

\* A ping with a well-formed payload and a signature that is not the digest
\* was answered 403.
C26_Witness ==
    /\ FailsVerification
    /\ Request.signature # None
    /\ Request.event = Some("ping")
    /\ RequestBody = BodyPing
    /\ Request.response.status = 403

\* C27: handlers are serialized by the lock.  At most one request is between
\* taking the lock and returning; a handler that has returned does not hold
\* the lock; while a handler holds the lock waiting for room in the channel,
\* no other request waiting for the lock is answered, and the holder goes on
\* only once the channel has room; and, the worker being scheduled and the
\* backend answering, every request that holds or awaits the lock is
\* answered.
C27_HandlersSerialized ==
    /\ [](/\ Cardinality({r \in Conns : conn[r].pc = "send"}) <= 1
          /\ lock # 0 => conn[lock].pc = "send" /\ Len(queue) <= ChannelCapacity
          /\ \A r \in Conns : conn[r].pc = "send" => lock = r /\ pending # None
          /\ out # None => lock # Request.conn)
    /\ [][/\ lock # 0 =>
               \A r \in Conns : (r # lock /\ conn[r].pc = "lock") => conn'[r].pc = "lock"
          /\ \A r \in Conns :
               (conn[r].pc = "send" /\ conn'[r].pc # "send") =>
                   /\ Len(queue) < ChannelCapacity
                   /\ lock' = 0
                   /\ out' # None /\ Unwrap(out').conn = r]_vars
    /\ \A r \in 1..MaxHandlers :
          (conn[r].pc \in {"lock", "send"}) ~> (conn[r].pc = "idle")

\* One handler holds the lock, waiting for room in the full channel, while
\* the request of another connection waits for the lock.
C27_Witness ==
    /\ lock # 0
    /\ conn[lock].pc = "send"
    /\ Len(queue) = ChannelCapacity
    /\ \E r \in Conns : r # lock /\ conn[r].pc = "lock"

====
